---- MODULE Spec2Model ----
(***************************************************************************)
(* Agent API Gateway (main.go): the request dispatch pipeline              *)
(*   parse path -> look up service -> authenticate -> rate limit ->        *)
(*   rewrite path -> reverse proxy                                         *)
(* with the sliding-window rate limiter shared by all request goroutines.  *)
(*                                                                         *)
(* Go strings are sequences of one-character strings, so that prefix       *)
(* tests, splitting and concatenation are computed and not assumed.        *)
(* Time is in seconds.                                                     *)
(***************************************************************************)
EXTENDS Integers, Sequences, FiniteSets, TLC

VARIABLES
    clock,      \* the wall clock read by time.Now(), in seconds
    mu,         \* rateLimiter.mu: 0 when free, else the goroutine holding it
    requests,   \* rateLimiter.requests: key -> timestamps of admitted requests
    conn,       \* one record per connection slot: the goroutine serving a request
    admitted,   \* history: (service, client) -> admission times of the trailing minute
    load,       \* which requests the clients send in this run
    server      \* the http.Server of main: its phase and the shutdown deadline

vars == <<clock, mu, requests, conn, admitted, load, server>>

\* ---------------------------------------------------------------- bounds

\* the clock stops advancing here
MaxTime == 60
\* granularity of the clock
TickStep == 30

\* time.Minute, the window of rateLimiter.allow, in seconds
Minute == 60

\* the timeout of the shutdown context, 5*time.Second
Grace == 5

\* ---------------------------------------------------------------- strings

Slash == "/"
Colon == ":"

\* strings.HasPrefix
HasPrefix(s, prefix) ==
    /\ Len(s) >= Len(prefix)
    /\ SubSeq(s, 1, Len(prefix)) = prefix

\* strings.TrimPrefix
TrimPrefix(s, prefix) ==
    IF HasPrefix(s, prefix) THEN SubSeq(s, Len(prefix) + 1, Len(s)) ELSE s

\* faulty variant of SplitN2: leading separators are skipped
SplitSkipEmpty(s, sep) ==
    LET firsts == {i \in 1..Len(s) : s[i] # sep}
    IN  IF firsts = {} THEN <<>>
        ELSE LET b == CHOOSE j \in firsts : \A k \in firsts : j <= k
                 hits == {i \in b..Len(s) : s[i] = sep}
             IN  IF hits = {} THEN <<SubSeq(s, b, Len(s))>>
                 ELSE LET i == CHOOSE j \in hits : \A k \in hits : j <= k
                      IN  <<SubSeq(s, b, i - 1), SubSeq(s, i + 1, Len(s))>>

\* strings.SplitN(s, "/", 2): at most two parts, cut at the first separator
SplitN2(s, sep) ==
    LET hits == {i \in 1..Len(s) : s[i] = sep}
    IN  IF hits = {} THEN <<s>>
        ELSE LET i == CHOOSE j \in hits : \A k \in hits : j <= k
             IN  <<SubSeq(s, 1, i - 1), SubSeq(s, i + 1, Len(s))>>

\* http.Header.Get: the first value of the header, "" when it is absent
HeaderGet(h, name) == IF Len(h[name]) = 0 THEN <<>> ELSE h[name][1]

\* ---------------------------------------------------------------- configuration

BearerPrefix == <<"B", "e", "a", "r", "e", "r", " ">>

NoAuth == [nil |-> TRUE, Type |-> "", Tokens |-> <<>>]
NoRateLimit == [nil |-> TRUE, RequestsPerMinute |-> 0]
AuthOf(type, tokens) == [nil |-> FALSE, Type |-> type, Tokens |-> tokens]
RateLimitOf(n) == [nil |-> FALSE, RequestsPerMinute |-> n]

SvcPublic == <<"p">>
SvcAI == <<"a">>
SvcAI2 == <<"a", ":", "1">>
SvcKey == <<"k">>
SvcZero == <<"z">>
SvcOdd == <<"o">>

ServiceNames == {SvcPublic, SvcAI, SvcAI2, SvcKey, SvcZero, SvcOdd}

\* Config.Services as loaded from gateway.yaml
Services ==
    [n \in ServiceNames |->
        CASE n = SvcPublic -> [Auth |-> NoAuth, RateLimit |-> NoRateLimit]
          [] n = SvcAI     -> [Auth |-> AuthOf("bearer", << <<"t">>, <<"u">> >>),
                               RateLimit |-> RateLimitOf(2)]
          [] n = SvcAI2    -> [Auth |-> NoAuth, RateLimit |-> RateLimitOf(1)]
          [] n = SvcKey    -> [Auth |-> AuthOf("apikey", << <<"s">>, <<>> >>),
                               RateLimit |-> NoRateLimit]
          [] n = SvcZero   -> [Auth |-> NoAuth, RateLimit |-> RateLimitOf(0)]
          [] n = SvcOdd    -> [Auth |-> AuthOf("Bearer", << <<"t">> >>),
                               RateLimit |-> NoRateLimit]]


\* faulty variant of Lookup: an unknown name falls back to the public service
LookupDefault(serviceName) ==
    IF serviceName \in DOMAIN Services
    THEN [ok |-> TRUE, svc |-> Services[serviceName]]
    ELSE [ok |-> TRUE, svc |-> Services[SvcPublic]]

\* lines 142-147: svc, ok := c.Services[serviceName]
Lookup(serviceName) ==
    IF serviceName \in DOMAIN Services
    THEN [ok |-> TRUE, svc |-> Services[serviceName]]
    ELSE [ok |-> FALSE, svc |-> [Auth |-> NoAuth, RateLimit |-> NoRateLimit]]

\* ---------------------------------------------------------------- authenticate

\* the range loops of authenticate: some configured token equals the value
Member(value, tokens) == \E j \in 1..Len(tokens) : value = tokens[j]

\* strings.TrimSpace, used only by a faulty variant of authenticate
TrimSpace(s) ==
    LET keep == {j \in 1..Len(s) : s[j] # " "}
    IN  IF keep = {} THEN <<>>
        ELSE SubSeq(s, CHOOSE j \in keep : \A k \in keep : j <= k,
                       CHOOSE j \in keep : \A k \in keep : j >= k)

\* faulty variant of authenticate: the bearer token is trimmed before the comparison
authenticateTrimmed(svc, header) ==
    IF svc.Auth.nil THEN TRUE
    ELSE CASE svc.Auth.Type = "bearer" ->
                LET auth == HeaderGet(header, "Authorization")
                IN  IF ~HasPrefix(auth, BearerPrefix) THEN FALSE
                    ELSE Member(TrimSpace(TrimPrefix(auth, BearerPrefix)), svc.Auth.Tokens)
           [] svc.Auth.Type = "apikey" ->
                Member(HeaderGet(header, "X-API-Key"), svc.Auth.Tokens)
           [] OTHER -> TRUE

\* faulty variant of authenticate: an unrecognised type denies
authenticateFailClosed(svc, header) ==
    IF svc.Auth.nil THEN TRUE
    ELSE CASE svc.Auth.Type = "bearer" ->
                LET auth == HeaderGet(header, "Authorization")
                IN  IF ~HasPrefix(auth, BearerPrefix) THEN FALSE
                    ELSE Member(TrimPrefix(auth, BearerPrefix), svc.Auth.Tokens)
           [] svc.Auth.Type = "apikey" ->
                Member(HeaderGet(header, "X-API-Key"), svc.Auth.Tokens)
           [] OTHER -> FALSE

\* Config.authenticate
authenticate(svc, header) ==
    IF svc.Auth.nil THEN TRUE
    ELSE CASE svc.Auth.Type = "bearer" ->
                LET auth == HeaderGet(header, "Authorization")
                IN  IF ~HasPrefix(auth, BearerPrefix) THEN FALSE
                    ELSE Member(TrimPrefix(auth, BearerPrefix), svc.Auth.Tokens)
           [] svc.Auth.Type = "apikey" ->
                Member(HeaderGet(header, "X-API-Key"), svc.Auth.Tokens)
           [] OTHER -> TRUE

\* ---------------------------------------------------------------- rate limiter

\* faulty variant of Key: the service name is left out
KeyClientOnly(serviceName, clientIP) == clientIP

\* line 159: fmt.Sprintf("%s:%s", serviceName, clientIP)
Key(serviceName, clientIP) == serviceName \o <<Colon>> \o clientIP

\* rl.requests[key]: the nil slice when the key is absent
MapGet(m, key) == IF key \in DOMAIN m THEN m[key] ELSE <<>>

\* faulty variant of After: a timestamp equal to the cutoff counts
AfterOrEqual(t, u) == t >= u

\* line 63: time.Time.After
After(t, u) == t > u

\* lines 60-66: the timestamps after the cutoff, in order
Filter(reqs, cutoff) == SelectSeq(reqs, LAMBDA t : After(t, cutoff))

\* faulty variant of Exceeded: one request more than the limit passes
ExceededStrict(filtered, limit) == Len(filtered) > limit

\* faulty variant of Exceeded: a limit of 0 means no limit
ExceededZeroUnlimited(filtered, limit) == limit > 0 /\ Len(filtered) >= limit

\* line 68: len(filtered) >= limit
Exceeded(filtered, limit) == Len(filtered) >= limit

\* faulty variant of Denied: the filtered window is written back before the test
DeniedStoresFiltered(m, key, filtered) == (key :> filtered) @@ m

\* lines 68-70: return false leaves rl.requests as it was
Denied(m, key, filtered) == m

\* faulty variant of Unlock: the mutex is not released
UnlockSkipped(holder) == holder

\* line 54: the deferred rl.mu.Unlock()
Unlock(holder) == 0

\* faulty variant of CanLock: allow takes no mutex
CanLockUnguarded(holder) == TRUE

\* line 53: rl.mu.Lock() returns only when no goroutine holds the mutex
CanLock(holder) == holder = 0


\* ---------------------------------------------------------------- requests

\* r.RemoteAddr as net/http sets it: "IP:port", an IPv6 address in brackets
Client1 == <<"1", ":", "8">>
Client2 == <<"[", "1", ":", "8", "]", ":", "8">>
Clients == {Client1, Client2}

Hdr(auth, apikey) == [n \in {"Authorization", "X-API-Key"} |->
                        IF n = "Authorization" THEN auth ELSE apikey]

Req(path, addr, auth, apikey) ==
    [Path |-> path, RemoteAddr |-> addr, Header |-> Hdr(auth, apikey)]

Bearer(token) == BearerPrefix \o token

PathPublic == <<"/", "p">>
PathAI == <<"/", "a", "/", "x">>
PathAI2 == <<"/", "a", ":", "1", "/", "x">>
PathKey == <<"/", "k", "/", "x">>
PathZero == <<"/", "z">>
PathOdd == <<"/", "o", "/", "x">>

BadPaths == {<<>>, <<"/">>, <<"/", "/", "a">>}
UnknownPaths == {<<"/", "n">>, <<"/", "A", "/", "x">>, <<"/", "a", ":", "/", "x">>,
                 <<"/", "p", "p">>}
PublicPaths == {PathPublic, <<"/", "p", "/">>, <<"/", "p", "/", "v", "/", "m">>}

\* values of the Authorization header
AuthValues ==
    {Bearer(<<"t">>), Bearer(<<"u">>), Bearer(<<"T">>), Bearer(<<"s">>),
     Bearer(<<" ", "t">>), Bearer(<<"t", " ">>), Bearer(<<>>),
     <<"b", "e", "a", "r", "e", "r", " ", "t">>,
     <<"B", "e", "a", "r", "e", "r", "t">>,
     <<"B", "e", "a", "r", "e", "r">>,
     <<" ">> \o Bearer(<<"t">>),
     <<"t">>, <<>>}

\* values of the X-API-Key header
KeyValues == {<<"s">>, <<"S">>, <<" ", "s">>, <<"x">>, <<>>}

\* the requests of a run in which one client connection is open at a time
SerialRequests ==
         {Req(p, Client1, <<>>, <<>>) : p \in BadPaths \cup UnknownPaths \cup PublicPaths}
    \cup {Req(p, Client1, <<Bearer(<<"t">>)>>, << <<"s">> >>) :
                p \in BadPaths \cup UnknownPaths}
    \cup {Req(PathAI, Client1, <<a>>, <<>>) : a \in AuthValues}
    \cup {Req(PathAI, Client1, <<>>, <<>>),
          Req(PathAI, Client1, <<>>, << <<"t">> >>),
          Req(PathAI, Client1, << <<"x">>, Bearer(<<"t">>) >>, <<>>),
          Req(PathAI, Client1, << Bearer(<<"u">>), <<"x">> >>, <<>>),
          Req(PathAI, Client2, <<Bearer(<<"t">>)>>, <<>>)}
    \cup {Req(PathKey, Client1, <<>>, <<k>>) : k \in KeyValues}
    \cup {Req(PathKey, Client1, <<>>, <<>>),
          Req(PathKey, Client1, <<Bearer(<<"s">>)>>, <<>>),
          Req(PathKey, Client1, <<>>, << <<"x">>, <<"s">> >>)}
    \cup {Req(PathAI2, Client1, <<>>, <<>>), Req(PathZero, Client1, <<>>, <<>>)}
    \cup {Req(PathOdd, Client1, a, <<>>) :
                a \in {<<>>, <<Bearer(<<"t">>)>>, << <<"x">> >>}}

\* the requests of a run in which two client connections are open at once
ConcurrentRequests ==
    {Req(PathAI, Client1, <<Bearer(<<"t">>)>>, <<>>),
     Req(PathAI, Client2, <<Bearer(<<"u">>)>>, <<>>),
     Req(PathAI, Client1, <<>>, <<>>),
     Req(PathAI2, Client1, <<>>, <<>>),
     Req(PathZero, Client1, <<>>, <<>>),
     Req(PathPublic, Client1, <<>>, <<>>)}

Slots == {1, 2}

\* the requests of the runs that follow the scheduler and the shutdown
SmallRequests ==
    {Req(PathAI2, Client1, <<>>, <<>>),
     Req(PathAI2, Client2, <<>>, <<>>),
     Req(PathPublic, Client1, <<>>, <<>>)}

RequestsOf(i) ==
    IF load = "serial" THEN (IF i = 1 THEN SerialRequests ELSE {})
    ELSE IF load = "small" THEN SmallRequests
    ELSE ConcurrentRequests

\* the (service, client) pairs that have a rate-limit policy
Pairs == {pr \in ServiceNames \X Clients : ~Services[pr[1]].RateLimit.nil}

\* ---------------------------------------------------------------- handler

\* fmt.Sprintf("%d", n)
Digits == <<"0", "1", "2", "3", "4", "5", "6", "7", "8", "9">>
RECURSIVE Itoa(_)
Itoa(n) ==
    IF n < 0 THEN <<"-">> \o Itoa(0 - n)
    ELSE IF n < 10 THEN <<Digits[n + 1]>>
    ELSE Itoa(n \div 10) \o <<Digits[(n % 10) + 1]>>

NoRequest == Req(<<>>, <<>>, <<>>, <<>>)

\* a connection slot with no request on it
Idle ==
    [pc |-> "idle", req |-> NoRequest, parts |-> <<>>, serviceName |-> <<>>,
     stages |-> <<>>, status |-> <<>>, respHeader |-> {}, upstreamPath |-> <<>>,
     authCalls |-> 0, allowCalls |-> 0, proxyCalls |-> 0,
     key |-> <<>>, limit |-> 0, now |-> 0, filtered |-> <<>>, seen |-> 0]

\* http.Error(w, msg, code); return
Error(c, code) == [c EXCEPT !.pc = "done", !.status = Append(@, code)]

\* faulty variant of Forward: the service prefix stays in the path
ForwardUnstripped(c) ==
    [c EXCEPT !.pc = "proxy",
              !.stages = Append(@, "Forward"),
              !.upstreamPath = c.req.Path,
              !.proxyCalls = @ + 1]

\* lines 169-178: rewrite the path and call svc.proxy.ServeHTTP
Forward(c) ==
    [c EXCEPT !.pc = "proxy",
              !.stages = Append(@, "Forward"),
              !.upstreamPath = IF Len(c.parts) > 1 THEN <<Slash>> \o c.parts[2]
                               ELSE <<Slash>>,
              !.proxyCalls = @ + 1]

\* faulty variant of RateLimited: the return of line 165 is missing
RateLimitedNoReturn(c) ==
    Forward([c EXCEPT !.status = Append(@, 429)])

\* faulty variant of RateLimited: the remaining count is reported as the limit
RateLimitedRemaining(c) ==
    Error([c EXCEPT !.respHeader = @ \cup
                {<<"X-RateLimit-Limit", Itoa(c.limit)>>,
                 <<"X-RateLimit-Remaining", Itoa(c.limit)>>,
                 <<"Retry-After", <<"6", "0">> >>}], 429)

\* lines 161-165: the response to a request the limiter denied
RateLimited(c) ==
    Error([c EXCEPT !.respHeader = @ \cup
                {<<"X-RateLimit-Limit", Itoa(c.limit)>>,
                 <<"X-RateLimit-Remaining", <<"0">> >>,
                 <<"Retry-After", <<"6", "0">> >>}], 429)

\* faulty variant of HasRateLimit: a missing policy is read as its zero value
HasRateLimitAlways(svc) == TRUE

\* line 157: svc.RateLimit != nil
HasRateLimit(svc) == ~svc.RateLimit.nil

\* lines 135-160 and 169-178: the handler up to its first blocking call, which is
\* rl.mu.Lock() inside limiter.allow for a rate-limited service and
\* svc.proxy.ServeHTTP otherwise
handler(r) ==
    LET parts == SplitN2(TrimPrefix(r.Path, <<Slash>>), Slash)
        c0 == [Idle EXCEPT !.req = r, !.parts = parts, !.stages = <<"Parse">>]
    IN  IF Len(parts) = 0 \/ parts[1] = <<>> THEN Error(c0, 400)
        ELSE
        LET serviceName == parts[1]
            found == Lookup(serviceName)
            svc == found.svc
            c1 == [c0 EXCEPT !.serviceName = serviceName, !.stages = Append(@, "Route")]
        IN  IF ~found.ok THEN Error(c1, 404)
            ELSE
            LET c2 == [c1 EXCEPT !.stages = Append(@, "Authenticate"), !.authCalls = @ + 1]
            IN  IF ~authenticate(svc, r.Header)
                THEN Error([c2 EXCEPT !.respHeader = @ \cup
                                {<<"WWW-Authenticate", <<"Bearer realm=\"gateway\"">> >>}], 401)
                ELSE IF HasRateLimit(svc)
                THEN [c2 EXCEPT !.pc = "lock",
                                !.stages = Append(@, "Admit"),
                                !.allowCalls = @ + 1,
                                !.key = Key(serviceName, r.RemoteAddr),
                                !.limit = svc.RateLimit.RequestsPerMinute]
                ELSE Forward(c2)


\* ---------------------------------------------------------------- state machine

\* the admission times that lie in the minute ending at t
Recent(times, t) == SelectSeq(times, LAMBDA u : u > t - Minute)

PairOf(c) == <<c.serviceName, c.req.RemoteAddr>>

\* faulty variant of Accepting: the listener stays open during shutdown
AcceptingAlways(srv) == TRUE

\* lines 209 and 220: ListenAndServe accepts until Shutdown closes the listener
Accepting(srv) == srv.phase = "serving"

\* the process exists: main has neither returned nor called log.Fatalf
Running(srv) == srv.phase \in {"serving", "shutdown"}

\* newRateLimiter() and an idle server, lines 46-50 and 197-201
Start ==
    /\ clock = 0
    /\ mu = 0
    /\ requests = <<>>
    /\ conn = [i \in Slots |-> Idle]
    /\ admitted = [pr \in Pairs |-> <<>>]
    /\ server = [phase |-> "serving", deadline |-> 0, forwarded |-> {}]

Init == Start /\ load \in {"serial", "concurrent"}

InitSmall == Start /\ load = "small"

\* a request arrives and its goroutine runs the handler to the first blocking call
Arrive(i) ==
    /\ Accepting(server)
    /\ conn[i].pc = "idle"
    /\ \E r \in RequestsOf(i) : conn' = [conn EXCEPT ![i] = handler(r)]
    /\ UNCHANGED <<clock, mu, requests, admitted, load, server>>

\* line 53: rl.mu.Lock()
Lock(i) ==
    /\ Running(server)
    /\ conn[i].pc = "lock"
    /\ CanLock(mu)
    /\ mu' = i
    /\ conn' = [conn EXCEPT ![i].pc = "locked"]
    /\ UNCHANGED <<clock, requests, admitted, load, server>>

\* lines 56-66: read the clock, filter the key's timestamps
AllowRead(i) ==
    /\ Running(server)
    /\ conn[i].pc = "locked"
    /\ conn' = [conn EXCEPT ![i].pc = "counted",
                            ![i].now = clock,
                            ![i].filtered = Filter(MapGet(requests, conn[i].key),
                                                   clock - Minute),
                            ![i].seen = Len(admitted[PairOf(conn[i])])]
    /\ UNCHANGED <<clock, mu, requests, admitted, load, server>>

\* allow returns: its locals go out of scope
Return(c) == [c EXCEPT !.now = 0, !.filtered = <<>>, !.seen = 0]

\* lines 68-70, the deferred Unlock, and lines 160-166 of the handler
AllowDeny(i) ==
    /\ Running(server)
    /\ conn[i].pc = "counted"
    /\ Exceeded(conn[i].filtered, conn[i].limit)
    /\ requests' = Denied(requests, conn[i].key, conn[i].filtered)
    /\ mu' = Unlock(mu)
    /\ conn' = [conn EXCEPT ![i] = RateLimited(Return(conn[i]))]
    /\ UNCHANGED <<clock, admitted, load, server>>

\* lines 72-74, the deferred Unlock, and lines 169-178 of the handler
AllowAdmit(i) ==
    /\ Running(server)
    /\ conn[i].pc = "counted"
    /\ ~Exceeded(conn[i].filtered, conn[i].limit)
    /\ requests' = (conn[i].key :> Append(conn[i].filtered, conn[i].now)) @@ requests
    /\ admitted' = [admitted EXCEPT ![PairOf(conn[i])] =
                        Recent(Append(@, conn[i].now), clock)]
    /\ mu' = Unlock(mu)
    /\ conn' = [conn EXCEPT ![i] = Forward(Return(conn[i]))]
    /\ UNCHANGED <<clock, load, server>>

\* svc.proxy.ServeHTTP returns: the upstream answered, or the proxy reported 502
UpstreamRespond(i) ==
    /\ Running(server)
    /\ conn[i].pc = "proxy"
    /\ \E code \in {200, 502} : conn' = [conn EXCEPT ![i] = Error(conn[i], code)]
    /\ UNCHANGED <<clock, mu, requests, admitted, load, server>>

\* the handler has returned; the connection takes the next request
Finish(i) ==
    /\ Running(server)
    /\ conn[i].pc = "done"
    /\ conn' = [conn EXCEPT ![i] = Idle]
    /\ UNCHANGED <<clock, mu, requests, admitted, load, server>>

\* time passes
Tick ==
    /\ Running(server)
    /\ clock + TickStep <= MaxTime
    /\ clock' = clock + TickStep
    /\ admitted' = [pr \in Pairs |-> Recent(admitted[pr], clock')]
    /\ UNCHANGED <<mu, requests, conn, load, server>>

Next ==
    \/ \E i \in Slots : Arrive(i)
    \/ \E i \in Slots : Lock(i)
    \/ \E i \in Slots : AllowRead(i)
    \/ \E i \in Slots : AllowDeny(i)
    \/ \E i \in Slots : AllowAdmit(i)
    \/ \E i \in Slots : UpstreamRespond(i)
    \/ \E i \in Slots : Finish(i)
    \/ Tick

Spec == Init /\ [][Next]_vars

\* lines 214-220: main receives the signal and calls server.Shutdown with a
\* context that expires after the grace period; Shutdown closes the listener
Signal ==
    /\ server.phase = "serving"
    /\ server' = [phase |-> "shutdown", deadline |-> clock + Grace,
                  forwarded |-> {i \in Slots : conn[i].pc = "proxy"}]
    /\ UNCHANGED <<clock, mu, requests, conn, admitted, load>>

\* lines 220-224: every connection is idle, Shutdown returns nil, main returns
ShutdownDone ==
    /\ server.phase = "shutdown"
    /\ \A i \in Slots : conn[i].pc = "idle"
    /\ server' = [server EXCEPT !.phase = "stopped"]
    /\ UNCHANGED <<clock, mu, requests, conn, admitted, load>>

\* lines 220-222: the context expired, Shutdown returns its error and
\* log.Fatalf ends the process with the connections still open
ShutdownTimeout ==
    /\ server.phase = "shutdown"
    /\ clock >= server.deadline
    /\ server' = [server EXCEPT !.phase = "fatal"]
    /\ UNCHANGED <<clock, mu, requests, conn, admitted, load>>

NextShutdown == Next \/ Signal \/ ShutdownDone \/ ShutdownTimeout

SpecShutdown == InitSmall /\ [][NextShutdown]_vars


\* ---------------------------------------------------------------- properties

Active == {i \in Slots : conn[i].pc # "idle"}

LimitOf(pr) == Services[pr[1]].RateLimit.RequestsPerMinute

\* C1: for every (service, client) pair the number of requests the limiter
\* admitted in the trailing minute never exceeds the configured limit,
\* whatever the interleaving of the goroutines.
C1_AdmittedWithinLimit ==
    \A pr \in Pairs : Len(admitted[pr]) <= LimitOf(pr)

\* C1: two goroutines are inside allow for the same key at once, one slot of
\* the window is left, one holds the mutex and will admit, the other waits.
C1_Witness ==
    \E i, j \in Slots :
        /\ i # j
        /\ conn[i].pc = "counted" /\ conn[j].pc = "lock"
        /\ conn[i].key = conn[j].key
        /\ Len(conn[i].filtered) = conn[i].limit - 1
        /\ conn[i].limit = 2

\* C2: a request is admitted if and only if fewer than N requests of its key
\* were admitted in the minute that ends when it reads the clock: the (N+1)th
\* within a window is denied, and each admission frees its slot one minute
\* after its own timestamp.
C2_SlidingWindow ==
    [][\A i \in Slots :
          (conn[i].pc = "counted" /\ conn'[i].pc # "counted") =>
              /\ conn'[i].pc \in {"proxy", "done"}
              /\ (conn'[i].pc = "proxy") <=> (conn[i].seen < conn[i].limit)
              /\ (conn'[i].pc = "done") <=> (conn'[i].status = <<429>>)]_vars

\* C2: N = 2 requests were admitted at time 0 and a third was denied; a minute
\* later the window has elapsed and the next request is about to be admitted.
C2_Witness ==
    \E i, j \in Slots :
        /\ i # j
        /\ conn[j].status = <<429>> /\ conn[j].key = conn[i].key
        /\ conn[i].pc = "counted" /\ conn[i].now = Minute /\ conn[i].limit = 2
        /\ MapGet(requests, conn[i].key) = <<0, 0>>
        /\ conn[i].filtered = <<>>

KeysDistinct ==
    \A p \in ServiceNames \X Clients : \A q \in ServiceNames \X Clients :
        p # q => Key(p[1], p[2]) # Key(q[1], q[2])

Carries(c, name) == Len(c.req.Header[name]) > 0
Routed(c) == c.pc # "idle" /\ Len(c.parts) > 0 /\ c.parts[1] \in ServiceNames
PolicyOf(c) == Services[c.parts[1]].Auth
TokenSet(c) == {PolicyOf(c).Tokens[j] : j \in 1..Len(PolicyOf(c).Tokens)}
PassedAuth(c) == c.status # <<401>> /\ c.pc # "idle"

\* C4: a request with missing or mismatching credentials for a bearer or
\* apikey service ends with 401 and never reaches the proxy.
C4_UnauthorizedNeverForwarded ==
    \A i \in Slots :
        LET c == conn[i]
            bad == \/ /\ PolicyOf(c).Type = "bearer"
                      /\ \/ ~Carries(c, "Authorization")
                         \/ c.req.Header["Authorization"][1] \notin
                                {BearerPrefix \o t : t \in TokenSet(c)}
                   \/ /\ PolicyOf(c).Type = "apikey"
                      /\ \/ ~Carries(c, "X-API-Key")
                         \/ c.req.Header["X-API-Key"][1] \notin TokenSet(c)
        IN  (Routed(c) /\ ~PolicyOf(c).nil /\ bad) =>
                c.pc = "done" /\ c.status = <<401>> /\ c.proxyCalls = 0

\* C5: a request whose (non-empty) first path segment is no configured service
\* ends with 404 without authenticate, allow or the proxy being called.
C5_UnknownServiceNotFound ==
    \A i \in Slots :
        LET c == conn[i]
        IN  (c.pc # "idle" /\ Len(c.parts) > 0 /\ c.parts[1] # <<>>
                /\ c.parts[1] \notin ServiceNames) =>
                /\ c.pc = "done" /\ c.status = <<404>>
                /\ c.stages = <<"Parse", "Route">>
                /\ c.authCalls = 0 /\ c.allowCalls = 0 /\ c.proxyCalls = 0
                /\ c.upstreamPath = <<>>

\* C5: a request for an unconfigured service that carries valid credentials
\* of other services has ended with 404.
C5_Witness ==
    \E i \in Slots :
        /\ conn[i].status = <<404>>
        /\ conn[i].serviceName = <<"A">>
        /\ Carries(conn[i], "Authorization") /\ Carries(conn[i], "X-API-Key")


\* the stage sequences of the pipeline Parse, Route, Authenticate, Admit,
\* Forward, and the outcome each ends with
StageOrder == <<"Parse", "Route", "Authenticate", "Admit", "Forward">>
StageRuns ==
    {SubSeq(StageOrder, 1, k) : k \in 1..Len(StageOrder)}
        \cup {<<"Parse", "Route", "Authenticate", "Forward">>}
OutcomesOf(stage) ==
    CASE stage = "Parse" -> {400}
      [] stage = "Route" -> {404}
      [] stage = "Authenticate" -> {401}
      [] stage = "Admit" -> {429}
      [] stage = "Forward" -> {200, 502}

\* C6: every request runs the stages in the order Parse, Route, Authenticate,
\* Admit, Forward (Admit only for a rate-limited service), stops at the first
\* stage that fails, writes exactly one outcome, and calls the proxy at most
\* once, also when the upstream call fails.
C6_PipelineOrder ==
    \A i \in Active :
        LET c == conn[i]
        IN  /\ c.stages \in StageRuns
            /\ (c.stages[Len(c.stages)] = "Forward" /\ Len(c.stages) = 4) =>
                    Services[c.serviceName].RateLimit.nil
            /\ c.proxyCalls = (IF c.stages[Len(c.stages)] = "Forward" THEN 1 ELSE 0)
            /\ c.authCalls <= 1 /\ c.allowCalls <= 1
            /\ IF c.pc = "done"
               THEN Len(c.status) = 1 /\ c.status[1] \in OutcomesOf(c.stages[Len(c.stages)])
               ELSE c.status = <<>> /\ c.stages[Len(c.stages)] \in {"Admit", "Forward"}

\* C6: a request went through all five stages, its upstream call failed, and
\* the proxy was called once.
C6_Witness ==
    \E i \in Slots :
        /\ conn[i].stages = StageOrder
        /\ conn[i].status = <<502>>
        /\ conn[i].proxyCalls = 1

\* C7: a request to a service without a rate-limit policy never gets 429,
\* never calls allow, and no entry of the limiter's map belongs to such a
\* service.
C7_NoPolicyNoLimiter ==
    /\ \A i \in Slots :
          (Routed(conn[i]) /\ Services[conn[i].parts[1]].RateLimit.nil) =>
              /\ conn[i].status # <<429>>
              /\ conn[i].allowCalls = 0
              /\ conn[i].pc \in {"proxy", "done"}
              /\ "Admit" \notin {conn[i].stages[k] : k \in 1..Len(conn[i].stages)}
    /\ \A n \in ServiceNames : \A a \in Clients :
          Services[n].RateLimit.nil => Key(n, a) \notin DOMAIN requests

\* C7: the public service answers while the limiter holds full windows of
\* other services.
C7_Witness ==
    \E i \in Slots :
        /\ conn[i].serviceName = SvcPublic
        /\ conn[i].status = <<200>>
        /\ Len(MapGet(requests, Key(SvcAI, Client1))) = 2
        /\ clock = Minute

\* C8: with a limit of 0, allow denies: every request to the service with
\* requests_per_minute 0 ends with 429 and is never forwarded or recorded, and
\* in every limiter state the test of line 68 holds for every key at limit 0.
C8_ZeroDeniesAll ==
    /\ \A i \in Slots :
          (Routed(conn[i]) /\ conn[i].parts[1] = SvcZero) =>
              /\ conn[i].limit = 0
              /\ conn[i].pc \in {"lock", "locked", "counted", "done"}
              /\ conn[i].pc = "done" => conn[i].status = <<429>>
              /\ conn[i].proxyCalls = 0
    /\ \A a \in Clients : Len(admitted[<<SvcZero, a>>]) = 0
    /\ \A key \in DOMAIN requests \cup {Key(SvcZero, a) : a \in Clients} :
          Exceeded(Filter(MapGet(requests, key), clock - Minute), 0)

\* C8: a request to the limit-0 service was denied a minute after start, when
\* every stored window has emptied.
C8_Witness ==
    \E i \in Slots :
        /\ conn[i].serviceName = SvcZero
        /\ conn[i].status = <<429>>
        /\ clock = Minute
        /\ requests # <<>>

\* C9: under a bearer policy a request passes authenticate if and only if its
\* Authorization header is exactly "Bearer " followed by a configured token.
C9_BearerExact ==
    \A i \in Slots :
        LET c == conn[i]
        IN  (Routed(c) /\ ~PolicyOf(c).nil /\ PolicyOf(c).Type = "bearer") =>
                (PassedAuth(c) <=>
                    /\ Carries(c, "Authorization")
                    /\ c.req.Header["Authorization"][1] \in
                            {BearerPrefix \o t : t \in TokenSet(c)})

\* C9: a token followed by a space was refused.
C9_Witness ==
    \E i \in Slots :
        /\ conn[i].serviceName = SvcAI
        /\ conn[i].req.Header["Authorization"] = <<Bearer(<<"t", " ">>)>>
        /\ conn[i].status = <<401>>

\* C10: under an apikey policy a request passes authenticate if and only if
\* it carries the X-API-Key header and the header's value is a configured key.
C10_ApiKeyHeaderRequired ==
    \A i \in Slots :
        LET c == conn[i]
        IN  (Routed(c) /\ ~PolicyOf(c).nil /\ PolicyOf(c).Type = "apikey") =>
                (PassedAuth(c) <=>
                    /\ Carries(c, "X-API-Key")
                    /\ c.req.Header["X-API-Key"][1] \in TokenSet(c))


\* the path after its leading "/" and service name
Remainder(c) == SubSeq(c.req.Path, Len(c.serviceName) + 2, Len(c.req.Path))

\* C11: a forwarded request goes upstream with the path that is left when the
\* leading /<service> is taken off the request path, and with "/" when
\* nothing or only "/" is left.
C11_PathRewrite ==
    \A i \in Slots :
        LET c == conn[i]
        IN  c.proxyCalls > 0 =>
                /\ SubSeq(c.req.Path, 1, Len(c.serviceName) + 1) = <<Slash>> \o c.serviceName
                /\ c.upstreamPath = (IF Remainder(c) \in {<<>>, <<Slash>>} THEN <<Slash>>
                                     ELSE Remainder(c))
                /\ c.upstreamPath[1] = Slash

\* C11: /p/v/m has gone upstream as /v/m.
C11_Witness ==
    \E i \in Slots :
        /\ conn[i].req.Path = <<"/", "p", "/", "v", "/", "m">>
        /\ conn[i].upstreamPath = <<"/", "v", "/", "m">>
        /\ conn[i].status = <<200>>

\* the values a response carries for a header
HeaderValues(c, name) == {h[2] : h \in {g \in c.respHeader : g[1] = name}}

\* strconv.Atoi of a string of decimal digits
DigitValue(d) == CHOOSE v \in 0..9 : Digits[v + 1] = d
RECURSIVE Atoi(_)
Atoi(s) ==
    IF Len(s) = 0 THEN 0
    ELSE 10 * Atoi(SubSeq(s, 1, Len(s) - 1)) + DigitValue(s[Len(s)])

\* C12: a request the limiter denied ends with 429, X-RateLimit-Limit is the
\* configured limit of its service, X-RateLimit-Remaining is 0, Retry-After
\* is the window in seconds, and the proxy is not called.
C12_TooManyRequestsHeaders ==
    \A i \in Slots :
        LET c == conn[i]
        IN  /\ (c.pc = "done" /\ c.stages[Len(c.stages)] = "Admit") => c.status = <<429>>
            /\ c.status = <<429>> =>
                /\ \E v \in HeaderValues(c, "X-RateLimit-Limit") :
                      /\ HeaderValues(c, "X-RateLimit-Limit") = {v}
                      /\ Atoi(v) = Services[c.serviceName].RateLimit.RequestsPerMinute
                /\ HeaderValues(c, "X-RateLimit-Remaining") = {<<"0">>}
                /\ \E v \in HeaderValues(c, "Retry-After") :
                      /\ HeaderValues(c, "Retry-After") = {v}
                      /\ Atoi(v) = Minute
                /\ c.proxyCalls = 0 /\ c.upstreamPath = <<>>

\* C12: the third request of a minute to the service with limit 2 was denied.
C12_Witness ==
    \E i \in Slots :
        /\ conn[i].serviceName = SvcAI
        /\ conn[i].status = <<429>>
        /\ <<"X-RateLimit-Limit", <<"2">> >> \in conn[i].respHeader

\* the path has no segment or an empty first one
NoFirstSegment(path) ==
    \/ path = <<>>
    \/ path = <<Slash>>
    \/ Len(path) >= 2 /\ path[1] = Slash /\ path[2] = Slash

\* C13: a request whose path has no segment or an empty first segment ends
\* with 400 before the service lookup, authenticate, allow and the proxy.
C13_BadRequestFirst ==
    \A i \in Active :
        LET c == conn[i]
        IN  /\ NoFirstSegment(c.req.Path) =>
                /\ c.pc = "done" /\ c.status = <<400>>
                /\ c.stages = <<"Parse">>
                /\ c.serviceName = <<>>
                /\ c.authCalls = 0 /\ c.allowCalls = 0 /\ c.proxyCalls = 0
            /\ c.status = <<400>> => NoFirstSegment(c.req.Path)

\* C13: //a, sent with valid credentials, has ended with 400.
C13_Witness ==
    \E i \in Slots :
        /\ conn[i].req.Path = <<"/", "/", "a">>
        /\ Carries(conn[i], "Authorization")
        /\ conn[i].status = <<400>>


\* C15: the limiter's map changes only in a step in which allow admits a
\* request: a denial by allow and a request that ends with 400, 404 or 401
\* leave the whole map as it was.
C15_MapChangesOnlyOnAdmit ==
    [][/\ requests' # requests =>
              \E i \in Slots : /\ conn[i].pc = "counted"
                               /\ conn'[i].pc = "proxy"
                               /\ ~Exceeded(conn[i].filtered, conn[i].limit)
       /\ \A i \in Slots :
              (conn'[i].pc = "done" /\ conn[i].pc # "done"
                    /\ conn'[i].status[1] \in {400, 404, 401, 429}) =>
                  requests' = requests /\ admitted' = admitted]_vars

\* C15: a request without credentials to the rate-limited bearer service got
\* 401 while its window still has room, and the window is as it was.
C15_Witness ==
    \E i \in Slots :
        /\ conn[i].serviceName = SvcAI
        /\ conn[i].status = <<401>>
        /\ MapGet(requests, Key(SvcAI, conn[i].req.RemoteAddr)) = <<0>>
        /\ clock = 0

\* the timestamps stored for the key that allow is deciding on
Stored(c) == MapGet(requests, c.key)

\* C16 as claimed: the count compared with the limit is the number of stored
\* timestamps t of the key with t >= now - window, one exactly a window old
\* included.
C16_CountsWindowInclusive ==
    \A i \in Slots :
        conn[i].pc = "counted" =>
            Len(conn[i].filtered) =
                Cardinality({k \in 1..Len(Stored(conn[i])) :
                                Stored(conn[i])[k] >= conn[i].now - Minute})

\* C16 as amended: the count compared with the limit is the number of stored
\* timestamps t of the key with t > now - window; a timestamp a window old or
\* older is pruned before the count.
C16_CountsWindowExclusive ==
    \A i \in Slots :
        conn[i].pc = "counted" =>
            /\ Len(conn[i].filtered) =
                    Cardinality({k \in 1..Len(Stored(conn[i])) :
                                    Stored(conn[i])[k] > conn[i].now - Minute})
            /\ \A k \in 1..Len(conn[i].filtered) :
                    conn[i].filtered[k] > conn[i].now - Minute
            /\ conn[i].now <= clock

\* C16: allow is deciding at time 60 on a key whose stored timestamps are
\* exactly a minute old, and counts none of them.
C16_Witness ==
    \E i \in Slots :
        /\ conn[i].pc = "counted"
        /\ conn[i].now = Minute
        /\ Len(Stored(conn[i])) > 0
        /\ \A k \in 1..Len(Stored(conn[i])) : Stored(conn[i])[k] = conn[i].now - Minute
        /\ Len(conn[i].filtered) = 0

\* C17: a request that is in the proxy call or has written its response does
\* not hold the limiter's mutex; the mutex is held only between lines 53
\* and 75 of allow.
C17_NoLockAcrossIO ==
    /\ \A i \in Slots : conn[i].pc \in {"idle", "lock", "proxy", "done"} => mu # i
    /\ mu # 0 => (mu \in Slots /\ conn[mu].pc \in {"locked", "counted"})

\* C17: one request is inside the proxy call while another holds the mutex.
C17_Witness ==
    \E i, j \in Slots :
        /\ conn[i].pc = "proxy" /\ conn[i].allowCalls = 1
        /\ conn[j].pc = "counted" /\ mu = j

\* C19: for every rate-limited pair the stored window has at most N entries,
\* in non-decreasing order; an entry exists only once a request of the key
\* was admitted, so it is never empty and the limit-0 service has none.
C19_StoredWindowBounded ==
    /\ \A pr \in Pairs :
          LET w == MapGet(requests, Key(pr[1], pr[2]))
          IN  /\ Len(w) <= LimitOf(pr)
              /\ \A k \in 1..(Len(w) - 1) : w[k] <= w[k + 1]
              /\ \A k \in 1..Len(w) : w[k] <= clock
    /\ \A key \in DOMAIN requests : Len(requests[key]) >= 1
    /\ \A a \in Clients : Key(SvcZero, a) \notin DOMAIN requests

\* C19: a full window of the limit-2 service holds two different timestamps
\* in order, while a request to the limit-0 service was denied.
C19_Witness ==
    /\ MapGet(requests, Key(SvcAI, Client1)) = <<0, 30>>
    /\ \E i \in Slots : conn[i].serviceName = SvcZero /\ conn[i].status = <<429>>

\* C20: for a service whose auth type is neither "bearer" nor "apikey" every
\* request passes authenticate, whatever its headers, as for a service with
\* no auth policy.
C20_UnknownTypeFailsOpen ==
    \A i \in Slots :
        LET c == conn[i]
        IN  (Routed(c) /\ ~PolicyOf(c).nil /\ PolicyOf(c).Type \notin {"bearer", "apikey"}) =>
                /\ PassedAuth(c)
                /\ c.authCalls = 1
                /\ c.pc \in {"lock", "locked", "counted", "proxy", "done"}
                /\ Len(c.stages) > 3
                /\ HeaderValues(c, "WWW-Authenticate") = {}
                /\ Services[c.serviceName].RateLimit.nil =>
                        c.proxyCalls = 1 /\ c.status \in {<<>>, <<200>>, <<502>>}

\* C20: a request without credentials to the service of type "Bearer" was
\* forwarded.
C20_Witness ==
    \E i \in Slots :
        /\ conn[i].serviceName = SvcOdd
        /\ ~Carries(conn[i], "Authorization")
        /\ conn[i].status = <<200>>


\* the scheduling of the goroutines inside allow: a runnable goroutine runs,
\* and sync.Mutex hands the lock to a goroutine that keeps waiting for it.
\* Nothing is assumed of the upstream: a proxy call may never return.
Fairness ==
    \A i \in Slots :
        /\ SF_vars(Lock(i))
        /\ WF_vars(AllowRead(i))
        /\ WF_vars(AllowDeny(i))
        /\ WF_vars(AllowAdmit(i))

SpecFair == InitSmall /\ [][Next]_vars /\ Fairness

InAllow(i) == conn[i].pc \in {"lock", "locked", "counted"}

\* C18: every call of allow returns its decision, also while the requests of
\* other clients stay in the proxy call for ever.
C18_AllowReturns ==
    \A i \in Slots : InAllow(i) ~> (conn[i].pc \in {"proxy", "done"})

\* C18: a request of one client waits for the mutex while a request of
\* another client is inside the proxy call.
C18_Witness ==
    \E i, j \in Slots :
        /\ conn[i].pc = "lock"
        /\ conn[j].pc = "proxy"
        /\ conn[i].req.RemoteAddr # conn[j].req.RemoteAddr


\* C14: once main has received the signal no request is accepted; a request
\* that was inside the proxy call then can still get its upstream's answer,
\* and the process is not ended before the grace period is over unless every
\* connection is idle; when main has returned or log.Fatalf has run, the
\* requests still in flight get no answer any more.
C14_GracefulShutdown ==
    /\ [][/\ server.phase # "serving" =>
                \A i \in Slots : conn[i].pc = "idle" => conn'[i].pc = "idle"
          /\ ~Running(server) => (conn' = conn /\ server' = server)
          /\ (server.phase = "shutdown" /\ server'.phase = "fatal") =>
                clock >= server.deadline
          /\ (server.phase = "shutdown" /\ server'.phase = "stopped") =>
                \A i \in Slots : conn[i].pc = "idle"]_vars
    /\ [](server.phase = "shutdown" =>
            /\ server.deadline <= clock + Grace
            /\ \A i \in Slots : conn[i].pc = "proxy" => ENABLED UpstreamRespond(i)
            /\ clock >= server.deadline => ENABLED ShutdownTimeout
            /\ \A i \in server.forwarded : conn[i].status \in {<<>>, <<200>>, <<502>>})

\* C14: a request that was inside the proxy call when the signal came got
\* its upstream's answer within the grace period.
C14_Witness ==
    /\ server.phase = "shutdown"
    /\ clock < server.deadline
    /\ \E i \in server.forwarded : conn[i].pc = "done" /\ conn[i].status = <<200>>
    /\ \E j \in Slots : conn[j].pc = "idle"

====
